---- MODULE Spec2Model ----
(***************************************************************************)
(* The request-gating and caching pipeline of fbwidget (src/main.py,       *)
(* src/facebook.py): API-key/origin authorization, per-caller rate         *)
(* limiting, the TTL response cache and the upstream fetch.                *)
(*                                                                         *)
(* Strings that the code parses (the API_KEYS value, header values, the    *)
(* request path) are sequences of one-character strings, and the parsing   *)
(* functions work on them character by character.  Time is counted in      *)
(* ticks of 1/TicksPerSecond second, so that the float clock of            *)
(* time.monotonic() has values between whole seconds.                      *)
(***************************************************************************)
EXTENDS Integers, Sequences, FiniteSets, Bags, TLC

\* ------------------------------------------------------------------ bounds

\* Clock resolution of the model: ticks per second.
TicksPerSecond == 2

\* CACHE_TTL_SECONDS is read from the environment (src/main.py:22); the
\* deployments explored here configure this many seconds.
CACHE_TTL_SECONDS == 1

\* Ticks the clock may advance from its start, and again after the long delay.
ExtraTicks == 2

\* Requests accepted by the server over one run.
MaxRequests == 2

\* ------------------------------------------------- Python values and strings

UpperChars == <<"A","B","C","D","E","F","G","H","I","J","K","L","M",
                "N","O","P","Q","R","S","T","U","V","W","X","Y","Z">>

LowerChars == <<"a","b","c","d","e","f","g","h","i","j","k","l","m",
                "n","o","p","q","r","s","t","u","v","w","x","y","z">>

Digits == {"0","1","2","3","4","5","6","7","8","9"}

\* str.lower() on one character.
LowerChar(c) ==
    IF \E i \in 1..26 : UpperChars[i] = c
    THEN LowerChars[CHOOSE i \in 1..26 : UpperChars[i] = c]
    ELSE c

\* str.lower()
Lower(s) == [i \in 1..Len(s) |-> LowerChar(s[i])]

IsAlpha(c) == \E i \in 1..26 : UpperChars[i] = c \/ LowerChars[i] = c

IsSpace(c) == c = " "

\* s[i:] and s[:i] with Python's 0-based indices.
From(s, i) == SubSeq(s, i + 1, Len(s))

UpTo(s, i) == SubSeq(s, 1, i)

\* str.find(c): the 0-based index of the first c in s, or -1.
Find(s, c) ==
    IF \E i \in 1..Len(s) : s[i] = c
    THEN (CHOOSE i \in 1..Len(s) : s[i] = c /\ \A j \in 1..(i - 1) : s[j] # c) - 1
    ELSE -1

\* str.startswith(p)
StartsWith(s, p) == Len(s) >= Len(p) /\ SubSeq(s, 1, Len(p)) = p

\* str.strip()
RECURSIVE LStrip(_)
LStrip(s) == IF s # <<>> /\ IsSpace(Head(s)) THEN LStrip(Tail(s)) ELSE s

RECURSIVE RStrip(_)
RStrip(s) ==
    IF s # <<>> /\ IsSpace(s[Len(s)]) THEN RStrip(SubSeq(s, 1, Len(s) - 1)) ELSE s

Strip(s) == RStrip(LStrip(s))

\* str.split(sep): every piece between separators, empty pieces included.
RECURSIVE Split(_, _)
Split(s, sep) ==
    LET i == Find(s, sep)
    IN  IF i = -1 THEN <<s>> ELSE <<UpTo(s, i)>> \o Split(From(s, i + 1), sep)

\* str.split(sep, 1): at most one split.
Split1(s, sep) ==
    LET i == Find(s, sep)
    IN  IF i = -1 THEN <<s>> ELSE <<UpTo(s, i), From(s, i + 1)>>

Has(s, c) == \E i \in 1..Len(s) : s[i] = c

\* Literals of the source, spelled as character sequences.
S_key == <<"k","e","y",":">>

S_ip == <<"i","p",":">>

S_unknown == <<"u","n","k","n","o","w","n">>

S_api == <<"/","a","p","i","/">>

S_api_posts == <<"/","a","p","i","/","p","o","s","t","s">>

S_health == <<"/","h","e","a","l","t","h">>

S_http == <<"h","t","t","p",":","/","/">>

S_https == <<"h","t","t","p","s",":","/","/">>

S_localhost == <<"l","o","c","a","l","h","o","s","t">>

S_127 == <<"1","2","7",".">>

S_star == <<"*">>

\* ------------------------------------------------------- urllib.parse.urlparse

\* scheme_chars of urllib.parse
IsSchemeChar(c) == IsAlpha(c) \/ c \in Digits \/ c \in {"+", "-", "."}

\* urlsplit: strip "<scheme>:" when the text before the first ':' is a scheme.
AfterScheme(url) ==
    LET i == Find(url, ":")
    IN  IF i > 0 /\ IsAlpha(url[1]) /\ \A j \in 1..i : IsSchemeChar(url[j])
        THEN From(url, i + 1)
        ELSE url

\* _splitnetloc(url, 2): the text after "//" up to the first of '/', '?', '#'.
SplitNetloc(url) ==
    LET ends == {i \in 3..Len(url) : url[i] \in {"/", "?", "#"}}
        delim == IF ends = {} THEN Len(url) + 1
                 ELSE CHOOSE i \in ends : \A j \in ends : i <= j
    IN  SubSeq(url, 3, delim - 1)

\* urlparse(url).netloc: [tag |-> "ok", v |-> netloc], or the ValueError that
\* urlsplit raises for an unbalanced '[' or ']' in the netloc.
urlparse_netloc(url) ==
    LET rest == AfterScheme(url)
        netloc == IF Len(rest) >= 2 /\ SubSeq(rest, 1, 2) = <<"/", "/">>
                  THEN SplitNetloc(rest) ELSE <<>>
    IN  IF (Has(netloc, "[") /\ ~Has(netloc, "]")) \/ (Has(netloc, "]") /\ ~Has(netloc, "["))
        THEN [tag |-> "raise", exc |-> "ValueError"]
        ELSE [tag |-> "ok", v |-> netloc]

\* ------------------------------------------------------- API key configuration

\* The loop of _parse_api_keys over the comma-separated entries: the dict built
\* from `result`, or "ValueError" for a malformed entry.
RECURSIVE ParseEntries(_, _)
ParseEntries(entries, result) ==
    IF entries = <<>> THEN [tag |-> "dict", d |-> result]
    ELSE LET entry == Strip(Head(entries))
             parts == Split1(entry, ":")
         IN  IF entry = <<>> THEN ParseEntries(Tail(entries), result)
             ELSE IF Len(parts) # 2 \/ Strip(parts[1]) = <<>> \/ Strip(parts[2]) = <<>>
             THEN [tag |-> "raise", exc |-> "ValueError"]
             ELSE LET k == Strip(parts[1])
                      v == Lower(Strip(parts[2]))
                  IN  ParseEntries(Tail(entries),
                        [x \in DOMAIN result \cup {k} |-> IF x = k THEN v ELSE result[x]])

\* _parse_api_keys.  raw is <<>> when API_KEYS is unset, else <<value>>.
parse_api_keys(raw) ==
    IF raw = <<>> \/ raw[1] = <<>> \/ Strip(raw[1]) = <<>>
    THEN [tag |-> "None"]
    ELSE LET r == ParseEntries(Split(raw[1], ","), <<>>)
         IN  IF r.tag = "dict" /\ DOMAIN r.d = {}
             THEN [tag |-> "raise", exc |-> "ValueError"]
             ELSE r

\* _is_local_domain
is_local_domain(domain) == StartsWith(domain, S_localhost) \/ StartsWith(domain, S_127)

\* _cors_origins_for_domain
cors_origins_for_domain(domain) ==
    IF is_local_domain(domain)
    THEN {S_http \o domain, S_https \o domain}
    ELSE {S_https \o domain}

\* ------------------------------------------------------------------- state

VARIABLES
    fb_access_token, \* the environment's FB_ACCESS_TOKEN: <<>> (unset) or <<value>>
    api_keys,     \* _api_keys: the registry parsed once at import
    now,          \* the clock, in ticks
    posts_cache,  \* _posts_cache: (page_id, limit) -> (expiry, payload)
    buckets,      \* the limiter's storage: bucket key -> (count, window expiry)
    inflight,     \* the bag of requests suspended at an upstream call
    arrivals,     \* number of requests received so far
    last,         \* history: the request answered by the latest step, if it answered one
    stored,       \* history: per ResourceKey, the time and payload of the last store
    admitted      \* history: per CallerIdentity, admissions in its current window

vars == <<fb_access_token, api_keys, now, posts_cache, buckets, inflight, arrivals, last,
          stored, admitted>>

\* -------------------------------------------------------------- constants

\* @limiter.limit("60/minute"): 60 hits per window of 60 seconds.
RATE_LIMIT == 60

RATE_WINDOW_SECONDS == 60

WindowTicks == RATE_WINDOW_SECONDS * TicksPerSecond

TtlTicks == CACHE_TTL_SECONDS * TicksPerSecond

\* The clock values explored: the first ticks, and the ticks around the end
\* of a rate-limit window opened then.
TimePoints == (0..ExtraTicks) \cup ((WindowTicks - 1)..(WindowTicks - 1 + ExtraTicks))

\* _RATE_LIMIT_CODES and _PERMISSION_CODES of facebook.py
RATE_LIMIT_CODES == {4, 17, 32, 613}

PERMISSION_CODES == {10} \cup (200..299)

\* ------------------------------------------------------------ input sets

\* Values of API_KEYS: unset or blank, and a two-entry registry
\* "k:A.io, j:b.io" (upper case and a space, which the parser normalises).
OpenValues == { <<>>, << <<" ">> >> }

RegistryValues == { << <<"k",":","A",".","i","o",","," ","j",":","b",".","i","o">> >> }

ApiKeysValues == OpenValues \cup RegistryValues

\* Values of FB_ACCESS_TOKEN: unset, or a token.
TokenValues == { <<>>, << <<"t">> >> }

Methods == {"GET", "OPTIONS"}

Paths == {S_api_posts, S_health}

\* X-Api-Key header: absent, the two registered keys, an unregistered one.
KeyHeaders == { <<>>, <<"k">>, <<"j">>, <<"x">> }

\* Origin header: absent, "https://a.io", "http://a.io", "https://A.IO",
\* "https://b.io", "null" (the opaque origin browsers send), and "http://[".
OriginHeaders ==
    { <<>>,
      S_https \o <<"a",".","i","o">>,
      S_http \o <<"a",".","i","o">>,
      S_https \o <<"A",".","I","O">>,
      S_https \o <<"b",".","i","o">>,
      <<"n","u","l","l">>,
      S_http \o <<"[">> }

\* request.client: the peer address.
Clients == { << <<"1">> >>, << <<"2">> >> }

\* The page_id query parameter: absent, or a page id.
PageIdParams == { <<>>, <<"p">>, <<"q">> }

\* The limit query parameter: absent, or an integer.
LimitParams == { <<>>, <<0>>, <<20>>, <<21>> }

\* Graph API error codes returned by the upstream: some of each class, the
\* ends of the permission range, and 0 (an error object without a code).
ErrorCodes == {4, 613, 100, 190, 10, 200, 299, 300, 1, 0}

\* Versions of the upstream's data.
Versions == {1, 2}

\* ------------------------------------------------------------- responses

\* A response: its status, its body, its Cache-Control max-age (<<>> when the
\* header is not set) and the layer that produced it.
Response(status, body, maxAge, by) ==
    [status |-> status, body |-> body, maxAge |-> maxAge, by |-> by]

\* JSONResponse({"error": msg}, status_code=status)
JSONError(status, msg, by) == Response(status, [error |-> msg], <<>>, by)

\* ------------------------------------------------------------- Authorizer

\* _extract_request_origin: the lower-cased netloc of the Origin header, ""
\* when the header is absent or empty; urlparse's ValueError propagates.
extract_request_origin(rq) ==
    IF rq.origin = <<>> THEN [tag |-> "ok", v |-> <<>>]
    ELSE LET r == urlparse_netloc(rq.origin)
         IN  IF r.tag = "raise" THEN r ELSE [tag |-> "ok", v |-> Lower(r.v)]

\* _validate_api_key: None, the 401 JSONResponse, or the exception raised
\* while the origin is extracted (line 172, ahead of every check).
validate_api_key(rq) ==
    IF api_keys.tag = "None" THEN [tag |-> "None"]
    ELSE LET api_key == rq.key
             request_origin == extract_request_origin(rq)
         IN  IF request_origin.tag = "raise" THEN request_origin
             ELSE IF api_key = <<>>
             THEN [tag |-> "JSONResponse",
                   resp |-> JSONError(401, "Missing X-Api-Key header", "auth")]
             ELSE IF api_key \notin DOMAIN api_keys.d
             THEN [tag |-> "JSONResponse",
                   resp |-> JSONError(401, "Invalid API key", "auth")]
             ELSE IF request_origin.v # <<>> /\ request_origin.v # api_keys.d[api_key]
             THEN [tag |-> "JSONResponse",
                   resp |-> JSONError(401, "Origin does not match API key", "auth")]
             ELSE [tag |-> "None"]

\* enforce_api_key with "return rejection" forgotten: the rejection is computed
\* and the request goes on.
enforce_api_key_no_return(rq) ==
    LET is_api_request == StartsWith(rq.path, S_api)
        is_preflight == rq.method = "OPTIONS"
        auth_enabled == api_keys.tag = "dict" /\ DOMAIN api_keys.d # {}
    IN  IF ~is_api_request \/ is_preflight \/ ~auth_enabled
        THEN [tag |-> "call_next", authz |-> "bypass"]
        ELSE LET rejection == validate_api_key(rq)
             IN  IF rejection.tag = "JSONResponse"
                 THEN [tag |-> "call_next", authz |-> "reject"]
                 ELSE IF rejection.tag = "raise"
                 THEN [tag |-> "raise", authz |-> "raise"]
                 ELSE [tag |-> "call_next", authz |-> "pass"]

\* enforce_api_key without the open mode: a key is demanded even when no
\* registry is configured.
enforce_api_key_no_open_mode(rq) ==
    LET is_api_request == StartsWith(rq.path, S_api)
        is_preflight == rq.method = "OPTIONS"
    IN  IF ~is_api_request \/ is_preflight
        THEN [tag |-> "call_next", authz |-> "bypass"]
        ELSE IF rq.key = <<>>
        THEN [tag |-> "response", authz |-> "reject",
              resp |-> JSONError(401, "Missing X-Api-Key header", "auth")]
        ELSE LET rejection == validate_api_key(rq)
             IN  IF rejection.tag = "JSONResponse"
                 THEN [tag |-> "response", authz |-> "reject", resp |-> rejection.resp]
                 ELSE IF rejection.tag = "raise"
                 THEN [tag |-> "raise", authz |-> "raise"]
                 ELSE [tag |-> "call_next",
                       authz |-> IF api_keys.tag = "dict" THEN "pass" ELSE "bypass"]

\* The enforce_api_key middleware: call_next, the rejection, or the exception.
\* authz records the Authorizer's decision: "bypass", "pass", "reject", "raise".
enforce_api_key(rq) ==
    LET is_api_request == StartsWith(rq.path, S_api)
        is_preflight == rq.method = "OPTIONS"
        auth_enabled == api_keys.tag = "dict" /\ DOMAIN api_keys.d # {}
    IN  IF ~is_api_request \/ is_preflight \/ ~auth_enabled
        THEN [tag |-> "call_next", authz |-> "bypass"]
        ELSE LET rejection == validate_api_key(rq)
             IN  IF rejection.tag = "JSONResponse"
                 THEN [tag |-> "response", authz |-> "reject", resp |-> rejection.resp]
                 ELSE IF rejection.tag = "raise"
                 THEN [tag |-> "raise", authz |-> "raise"]
                 ELSE [tag |-> "call_next", authz |-> "pass"]

\* _build_cors_origins, with CORS_ORIGINS left at its default "*".
build_cors_origins ==
    IF api_keys.tag = "dict" /\ DOMAIN api_keys.d # {}
    THEN UNION {cors_origins_for_domain(api_keys.d[k]) : k \in DOMAIN api_keys.d}
    ELSE {S_star}

\* CORSMiddleware(allow_origins=_cors_origins, allow_methods=["GET"]) on a
\* preflight: an OPTIONS request that carries an Origin (and, as every browser
\* preflight does, Access-Control-Request-Method: GET) is answered by the CORS
\* layer itself; everything else goes on to the application.
cors_preflight(rq) ==
    IF rq.method = "OPTIONS" /\ rq.origin # <<>>
    THEN IF S_star \in build_cors_origins \/ rq.origin \in build_cors_origins
         THEN <<Response(200, [text |-> "OK"], <<>>, "cors")>>
         ELSE <<Response(400, [text |-> "Disallowed CORS origin"], <<>>, "cors")>>
    ELSE <<>>

\* ----------------------------------------------------------- Rate Limiter

\* _identify_requester by network address only.
identify_requester_by_address(rq) ==
    LET client_ip == IF rq.client # <<>> THEN rq.client[1] ELSE S_unknown
    IN  S_ip \o client_ip

\* _identify_requester: the limiter's bucket key.
identify_requester(rq) ==
    LET api_key == rq.key
    IN  IF api_key # <<>> THEN S_key \o api_key
        ELSE LET client_ip == IF rq.client # <<>> THEN rq.client[1] ELSE S_unknown
             IN  S_ip \o client_ip

\* One hit on the bucket `key` at time t under "60/minute": a window opens
\* with the first hit and lasts 60 seconds; every hit in it is counted; the
\* hit is admitted while the count is at most 60.
limiter_hit(bk, key, t) ==
    LET live == key \in DOMAIN bk /\ bk[key].expiry > t
        count == IF live THEN bk[key].count + 1 ELSE 1
        expiry == IF live THEN bk[key].expiry ELSE t + WindowTicks
    IN  [ok |-> count <= RATE_LIMIT,
         buckets |-> [k \in DOMAIN bk \cup {key} |->
                        IF k = key THEN [count |-> count, expiry |-> expiry] ELSE bk[k]]]

\* _rate_limit_exceeded_handler
rate_limit_exceeded_handler ==
    JSONError(429, "Rate limit exceeded: 60 per 1 minute", "limiter")

\* --------------------------------------------------------- Response Cache

\* The cache key without the limit.
CacheKey_page_only(page_id, limit) == <<page_id>>

\* The dict key of _posts_cache: the tuple (page_id, limit).
CacheKey(page_id, limit) == <<page_id, limit>>

\* int(x) for x = n / TicksPerSecond: truncation toward zero.
IntTrunc(n) == IF n >= 0 THEN n \div TicksPerSecond ELSE -((-n) \div TicksPerSecond)

\* _get_cached_posts with the remaining time rounded up (math.ceil for int).
get_cached_posts_ceil(cache, page_id, limit, t) ==
    IF CacheKey(page_id, limit) \notin DOMAIN cache THEN <<>>
    ELSE LET entry == cache[CacheKey(page_id, limit)]
             remaining_seconds == -IntTrunc(-(entry.expiry - t) - (TicksPerSecond - 1))
         IN  IF remaining_seconds <= 0 THEN <<>>
             ELSE <<Response(200, entry.payload, <<remaining_seconds>>, "cache")>>

\* _get_cached_posts with "remaining_seconds < 0" for "<= 0".
get_cached_posts_lt(cache, page_id, limit, t) ==
    IF CacheKey(page_id, limit) \notin DOMAIN cache THEN <<>>
    ELSE LET entry == cache[CacheKey(page_id, limit)]
             remaining_seconds == IntTrunc(entry.expiry - t)
         IN  IF remaining_seconds < 0 THEN <<>>
             ELSE <<Response(200, entry.payload, <<remaining_seconds>>, "cache")>>

\* _get_cached_posts at time t: <<>> for None, else the cached JSONResponse.
get_cached_posts(cache, page_id, limit, t) ==
    IF CacheKey(page_id, limit) \notin DOMAIN cache THEN <<>>
    ELSE LET entry == cache[CacheKey(page_id, limit)]
             remaining_seconds == IntTrunc(entry.expiry - t)
         IN  IF remaining_seconds <= 0 THEN <<>>
             ELSE <<Response(200, entry.payload, <<remaining_seconds>>, "cache")>>

\* The store as an update in place: an existing entry gets the new expiry
\* and keeps its payload.
cache_store_in_place(cache, page_id, limit, payload, t) ==
    [k \in DOMAIN cache \cup {CacheKey(page_id, limit)} |->
        IF k # CacheKey(page_id, limit) THEN cache[k]
        ELSE IF k \in DOMAIN cache THEN [cache[k] EXCEPT !.expiry = t + TtlTicks]
        ELSE [expiry |-> t + TtlTicks, payload |-> payload]]

\* The store as _posts_cache.setdefault(...): an existing entry is kept.
cache_store_setdefault(cache, page_id, limit, payload, t) ==
    [k \in DOMAIN cache \cup {CacheKey(page_id, limit)} |->
        IF k \in DOMAIN cache THEN cache[k]
        ELSE [expiry |-> t + TtlTicks, payload |-> payload]]

\* _posts_cache[(page_id, limit)] = (time.monotonic() + CACHE_TTL_SECONDS, payload)
cache_store(cache, page_id, limit, payload, t) ==
    [k \in DOMAIN cache \cup {CacheKey(page_id, limit)} |->
        IF k = CacheKey(page_id, limit)
        THEN [expiry |-> t + TtlTicks, payload |-> payload]
        ELSE cache[k]]

\* --------------------------------------------------------- Upstream Client

\* The exception classes of facebook.py: cls is a subclass of (or is) base.
IsSubclass(cls, base) ==
    \/ cls = base
    \/ base = "Exception"
    \/ /\ base = "FacebookAPIError"
       /\ cls \in {"ConfigurationError", "RateLimitError", "PageNotFoundError",
                   "TokenError", "PermissionError"}

\* _get_access_token: the token, or TokenError when FB_ACCESS_TOKEN is
\* unset or blank.
get_access_token ==
    LET token == IF fb_access_token = <<>> THEN <<>> ELSE Strip(fb_access_token[1])
    IN  IF token = <<>>
        THEN [tag |-> "raise", cls |-> "TokenError", msg |-> "FB_ACCESS_TOKEN not set in .env"]
        ELSE [tag |-> "ok", v |-> token]

\* What an upstream call can come back with: data of some version, an error
\* object with a code, or a failure of the call itself (timeout, bad JSON).
RepliesWith(codes) ==
    {[tag |-> "data", v |-> v] : v \in Versions}
    \cup {[tag |-> "error", code |-> c] : c \in codes}
    \cup {[tag |-> "fail"]}

\* Every kind of reply, and the replies explored where the kind of upstream
\* error does not matter (throttling stands for them all).
Replies == RepliesWith(ErrorCodes)

CommonReplies == RepliesWith({4})

\* _raise_for_api_error, for a reply that was received: the exception raised, or
\* [tag |-> "None"].
raise_for_api_error(reply) ==
    IF reply.tag # "error" THEN [tag |-> "None"]
    ELSE LET code == reply.code
             msg == "upstream message"
         IN  IF code \in RATE_LIMIT_CODES THEN [tag |-> "raise", cls |-> "RateLimitError", msg |-> msg]
             ELSE IF code = 100 THEN [tag |-> "raise", cls |-> "PageNotFoundError", msg |-> msg]
             ELSE IF code = 190 THEN [tag |-> "raise", cls |-> "TokenError", msg |-> msg]
             ELSE IF code \in PERMISSION_CODES THEN [tag |-> "raise", cls |-> "PermissionError", msg |-> msg]
             ELSE [tag |-> "raise", cls |-> "FacebookAPIError", msg |-> msg]

\* The end of an upstream call (get_page_info, get_page_posts) given its
\* reply: the exception it raises, or [tag |-> "ok"].
call_result(reply) ==
    IF reply.tag = "fail"
    THEN [tag |-> "raise", cls |-> "Exception", msg |-> "transport failure"]
    ELSE LET e == raise_for_api_error(reply)
         IN  IF e.tag = "raise" THEN e ELSE [tag |-> "ok"]

\* The except clauses with the handler of the base class first.
except_response_base_first(e) ==
    IF IsSubclass(e.cls, "FacebookAPIError") THEN JSONError(502, e.msg, "upstream")
    ELSE IF IsSubclass(e.cls, "RateLimitError") THEN JSONError(429, e.msg, "upstream")
    ELSE IF IsSubclass(e.cls, "PageNotFoundError") THEN JSONError(404, e.msg, "upstream")
    ELSE IF IsSubclass(e.cls, "ConfigurationError") THEN JSONError(500, e.msg, "upstream")
    ELSE IF IsSubclass(e.cls, "TokenError") THEN JSONError(500, e.msg, "upstream")
    ELSE IF IsSubclass(e.cls, "PermissionError") THEN JSONError(403, e.msg, "upstream")
    ELSE JSONError(500, "Internal server error", "upstream")

\* The except clauses of api_posts, in their order: the response for exception e.
except_response(e) ==
    IF IsSubclass(e.cls, "RateLimitError") THEN JSONError(429, e.msg, "upstream")
    ELSE IF IsSubclass(e.cls, "PageNotFoundError") THEN JSONError(404, e.msg, "upstream")
    ELSE IF IsSubclass(e.cls, "ConfigurationError") THEN JSONError(500, e.msg, "upstream")
    ELSE IF IsSubclass(e.cls, "TokenError") THEN JSONError(500, e.msg, "upstream")
    ELSE IF IsSubclass(e.cls, "PermissionError") THEN JSONError(403, e.msg, "upstream")
    ELSE IF IsSubclass(e.cls, "FacebookAPIError") THEN JSONError(502, e.msg, "upstream")
    ELSE JSONError(500, "Internal server error", "upstream")

\* The dict returned by get_page_info, and the list returned by
\* get_page_posts, for data of version v.
page_info_of(page_id, v) == [id |-> page_id, v |-> v]

posts_of(page_id, limit, v) == [of |-> page_id, limit |-> limit, v |-> v]

\* ------------------------------------------------------- request validation

\* The parameters with ge=0 for ge=1.
query_params_ge0(rq) ==
    LET limit == IF rq.limit = <<>> THEN 5 ELSE rq.limit[1]
    IN  IF rq.page_id = <<>> \/ limit < 0 \/ limit > 20 THEN <<>>
        ELSE <<rq.page_id[1], limit>>

\* limit: int = Query(5, ge=1, le=20) and page_id: str = Query(...):
\* <<page_id, limit>> for a request FastAPI accepts, <<>> for one it answers 422.
query_params(rq) ==
    LET limit == IF rq.limit = <<>> THEN 5 ELSE rq.limit[1]
    IN  IF rq.page_id = <<>> \/ limit < 1 \/ limit > 20 THEN <<>>
        ELSE <<rq.page_id[1], limit>>

\* ------------------------------------------------------ history definitions

EmptyDict == [k \in {} |-> 0]

\* ResourceKey of the data model: (resource_id, page_size).
ResourceKey(page_id, limit) == [resource_id |-> page_id, page_size |-> limit]

\* CallerIdentity of the data model: by key when a key header is present,
\* else by network address.
CallerIdentity(rq) ==
    IF rq.key # <<>> THEN [by |-> "key", of |-> rq.key] ELSE [by |-> "ip", of |-> rq.client]

\* Admissions of identity id in its window that is current at time t.
BudgetUsed(id, t) ==
    IF id \in DOMAIN admitted /\ t < admitted[id].until THEN admitted[id].n ELSE 0

\* How the request's key header stands to the registry.
KeyClass(rq) ==
    IF api_keys.tag = "None" THEN "open"
    ELSE IF rq.key = <<>> THEN "missing"
    ELSE IF rq.key \in DOMAIN api_keys.d THEN "valid"
    ELSE "unknown"

\* The host[:port] of a serialized origin "<scheme>://<host>[:<port>]", as
\* <<host[:port]>>; <<>> for a value of another form (such as "null").
OriginHostPort(o) ==
    LET seps == {i \in 2..(Len(o) - 2) : SubSeq(o, i, i + 2) = <<":", "/", "/">>}
    IN  IF seps = {} THEN <<>>
        ELSE LET i == CHOOSE x \in seps : \A y \in seps : x <= y
             IN  <<SubSeq(o, i + 3, Len(o))>>

\* How the request's Origin stands to the domain registered to its key.
OriginClass(rq) ==
    IF rq.origin = <<>> THEN "absent"
    ELSE IF KeyClass(rq) # "valid" THEN "other"
    ELSE IF OriginHostPort(rq.origin) # <<>>
            /\ Lower(OriginHostPort(rq.origin)[1]) = Lower(api_keys.d[rq.key])
    THEN "match"
    ELSE "mismatch"

\* ------------------------------------------------------------ the pipeline

\* api_posts_begin with the limiter applied after the cache lookup, to the
\* misses only.
api_posts_begin_cache_first(bk, cache, rq, page_id, limit, t) ==
    LET hit == limiter_hit(bk, identify_requester(rq), t)
        cached == get_cached_posts(cache, page_id, limit, t)
    IN  IF cached # <<>>
        THEN [stage |-> "hit", buckets |-> bk, lookups |-> 1, resp |-> cached]
        ELSE IF ~hit.ok
        THEN [stage |-> "limited", buckets |-> hit.buckets, lookups |-> 1,
              resp |-> <<rate_limit_exceeded_handler>>]
        ELSE [stage |-> "miss", buckets |-> hit.buckets, lookups |-> 1, resp |-> <<>>]

\* The body of the rate-limited endpoint up to its first await: the limiter's
\* check (the decorator runs before the function), then the cache lookup.
api_posts_begin(bk, cache, rq, page_id, limit, t) ==
    LET hit == limiter_hit(bk, identify_requester(rq), t)
        cached == get_cached_posts(cache, page_id, limit, t)
    IN  IF ~hit.ok
        THEN [stage |-> "limited", buckets |-> hit.buckets, lookups |-> 0,
              resp |-> <<rate_limit_exceeded_handler>>]
        ELSE IF cached # <<>>
        THEN [stage |-> "hit", buckets |-> hit.buckets, lookups |-> 1, resp |-> cached]
        ELSE [stage |-> "miss", buckets |-> hit.buckets, lookups |-> 1, resp |-> <<>>]

\* One request through the middleware stack, the router, the parameter
\* validation and api_posts_begin: how far it got (stage), the response if
\* one is produced before any upstream call, and the limiter's new storage.
Serve(rq) ==
    LET pre == cors_preflight(rq)
        mw == enforce_api_key(rq)
        q == query_params(rq)
        early(authz, stage, resp) ==
            [authz |-> authz, stage |-> stage, resp |-> <<resp>>,
             buckets |-> buckets, lookups |-> 0]
    IN  IF pre # <<>> THEN early("none", "cors", pre[1])
        ELSE IF mw.tag = "response" THEN early(mw.authz, "auth", mw.resp)
        ELSE IF mw.tag = "raise"
        THEN early(mw.authz, "auth",
                   Response(500, [text |-> "Internal Server Error"], <<>>, "server"))
        ELSE IF rq.method # "GET"
        THEN early(mw.authz, "router",
                   Response(405, [detail |-> "Method Not Allowed"], <<>>, "router"))
        ELSE IF rq.path = S_health
        THEN early(mw.authz, "router", Response(200, [status |-> "ok"], <<>>, "router"))
        ELSE IF rq.path # S_api_posts
        THEN early(mw.authz, "router",
                   Response(404, [detail |-> "Not Found"], <<>>, "router"))
        ELSE IF q = <<>>
        THEN early(mw.authz, "validation",
                   Response(422, [detail |-> "validation error"], <<>>, "validation"))
        ELSE LET b == api_posts_begin(buckets, posts_cache, rq, q[1], q[2], now)
             IN  [authz |-> mw.authz, stage |-> b.stage, resp |-> b.resp,
                  buckets |-> b.buckets, lookups |-> b.lookups]

\* ----------------------------------------------------------------- actions

\* The requests explored by the authorization runs: every method, path, key
\* and Origin, from one address, with the query page_id=p.
AuthRequests ==
    [method : Methods, path : Paths, key : KeyHeaders, origin : OriginHeaders,
     client : {<< <<"1">> >>}, page_id : {<<"p">>}, limit : {<<>>}]

\* The requests explored by the cache runs: every query, sent with the
\* registered key "k" and no Origin from one address.
CacheRequests ==
    [method : {"GET"}, path : {S_api_posts}, key : {<<"k">>}, origin : {<<>>},
     client : {<< <<"1">> >>}, page_id : PageIdParams, limit : LimitParams]

\* The request explored by the upstream-error runs.
UpstreamRequests ==
    [method : {"GET"}, path : {S_api_posts}, key : {<<"k">>}, origin : {<<>>},
     client : {<< <<"1">> >>}, page_id : {<<"p">>}, limit : {<<>>}]

\* The requests explored by the rate-limit runs: every caller (no key or a
\* registered key, from either address) with the query page_id=p.
RateRequests ==
    [method : {"GET"}, path : {S_api_posts}, key : {<<>>, <<"k">>, <<"j">>},
     origin : {<<>>}, client : Clients, page_id : {<<"p">>}, limit : {<<>>}]

NoResponse == [tag |-> "none"]

\* The bag b with one copy of r added, and with one copy of r removed.
Add(b, r) == b (+) SetToBag({r})

Remove(b, r) == b (-) SetToBag({r})

\* History: how the last store for ResourceKey k stands at time t.
PriorClass(k, t) ==
    IF k \notin DOMAIN stored THEN "none"
    ELSE IF t < stored[k].at + TtlTicks THEN "fresh" ELSE "stale"

\* History: how the entry the lookup reads stands at time t.
EntryClass(ck, t) ==
    IF ck \notin DOMAIN posts_cache THEN "none"
    ELSE IF t < posts_cache[ck].expiry THEN "live" ELSE "expired"

\* History: what is recorded about a request when it is received, for the
\* response if this step answers it...
Received(rq, h) ==
    LET q == query_params(rq)
        looked == h.lookups > 0
    IN  [method |-> rq.method,
         api |-> rq.path = S_api_posts,
         key |-> rq.key,
         origin |-> rq.origin,
         page_id |-> rq.page_id,
         limit |-> rq.limit,
         keyClass |-> KeyClass(rq),
         originClass |-> OriginClass(rq),
         wellFormed |-> q # <<>>,
         rkey |-> IF q # <<>> THEN <<ResourceKey(q[1], q[2])>> ELSE <<>>,
         t0 |-> now,
         stage |-> h.stage,
         budget |-> BudgetUsed(CallerIdentity(rq), now),
         lookups |-> h.lookups,
         entry |-> IF looked /\ CacheKey(q[1], q[2]) \in DOMAIN posts_cache
                   THEN <<posts_cache[CacheKey(q[1], q[2])]>> ELSE <<>>,
         prior |-> IF looked /\ ResourceKey(q[1], q[2]) \in DOMAIN stored
                   THEN <<stored[ResourceKey(q[1], q[2])]>> ELSE <<>>]

\* ... and what stays with the request while it is served.
Carried(rq, h) ==
    LET q == query_params(rq)
        looked == h.lookups > 0
    IN  [authz |-> h.authz,
         charged |-> h.buckets # buckets,
         prior |-> IF looked THEN PriorClass(ResourceKey(q[1], q[2]), now) ELSE "none",
         entry |-> IF looked THEN EntryClass(CacheKey(q[1], q[2]), now) ELSE "none",
         nProfile |-> 0, nPosts |-> 0, net |-> 0, stores |-> 0,
         cause |-> [tag |-> "none"], cls |-> "none", pv |-> 0, qv |-> 0]

\* History: the admissions after the limiter admitted a request of id at t.
Admit(id, t) ==
    [x \in DOMAIN admitted \cup {id} |->
        IF x = id
        THEN [n |-> BudgetUsed(id, t) + 1,
              until |-> IF BudgetUsed(id, t) > 0 THEN admitted[id].until ELSE t + WindowTicks]
        ELSE admitted[x]]

Answer(resp, g, rx) == [tag |-> "resp", resp |-> resp, g |-> g, rx |-> rx]

\* A request arrives and runs until it is answered or suspends at the
\* network call of get_page_info.  At most cap requests are suspended at a time.
Receive(rq, cap) ==
    /\ last = NoResponse
    /\ arrivals < MaxRequests
    /\ BagCardinality(inflight) < cap
    /\ \E h \in {Serve(rq)}, q \in {query_params(rq)}, token \in {get_access_token} :
       \E g \in {Carried(rq, h)}, rx \in {<<Received(rq, h)>>} :
           /\ buckets' = h.buckets
           /\ admitted' = IF h.stage \in {"hit", "miss"}
                          THEN Admit(CallerIdentity(rq), now) ELSE admitted
           /\ IF h.resp # <<>>
              THEN /\ last' = Answer(h.resp[1], g, rx)
                   /\ UNCHANGED inflight
              ELSE IF token.tag = "raise"
              THEN /\ last' = Answer(except_response(token),
                                      [g EXCEPT !.nProfile = 1, !.cause = [tag |-> "token"],
                                                !.cls = token.cls], rx)
                   /\ UNCHANGED inflight
              ELSE /\ inflight' = Add(inflight,
                                     [pc |-> "profile", page_id |-> q[1], limit |-> q[2],
                                      page_info |-> <<>>,
                                      g |-> [g EXCEPT !.nProfile = 1, !.net = 1]])
                   /\ UNCHANGED last
    /\ arrivals' = arrivals + 1
    /\ UNCHANGED <<fb_access_token, api_keys, now, posts_cache, stored>>

\* The reply to get_page_info's call arrives: an error ends the request; data
\* is kept as page_info and get_page_posts issues its call.
ProfileReply(r, reply) ==
    /\ last = NoResponse
    /\ BagIn(r, inflight)
    /\ r.pc = "profile"
    /\ LET res == call_result(reply)
           token == get_access_token
       IN  IF res.tag = "raise"
           THEN /\ last' = Answer(except_response(res),
                                   [r.g EXCEPT !.cause = reply, !.cls = res.cls], <<>>)
                /\ inflight' = Remove(inflight, r)
           ELSE IF token.tag = "raise"
           THEN /\ last' = Answer(except_response(token),
                                   [r.g EXCEPT !.nPosts = 1, !.pv = reply.v,
                                               !.cause = [tag |-> "token"],
                                               !.cls = token.cls], <<>>)
                /\ inflight' = Remove(inflight, r)
           ELSE /\ inflight' = Add(Remove(inflight, r),
                                  [r EXCEPT !.pc = "posts",
                                            !.page_info = <<page_info_of(r.page_id, reply.v)>>,
                                            !.g = [r.g EXCEPT !.nPosts = 1, !.net = 2,
                                                              !.pv = reply.v]])
                /\ UNCHANGED last
    /\ UNCHANGED <<fb_access_token, api_keys, now, posts_cache, buckets, arrivals,
                   stored, admitted>>

\* PostsReply with the store ahead of the error handling: a failed posts
\* fetch stores the page with an empty list of posts.
PostsReply_store_first(r, reply) ==
    /\ last = NoResponse
    /\ BagIn(r, inflight)
    /\ r.pc = "posts"
    /\ LET res == call_result(reply)
           payload == [page |-> r.page_info[1],
                       posts |-> IF res.tag = "raise" THEN posts_of(r.page_id, r.limit, 0)
                                 ELSE posts_of(r.page_id, r.limit, reply.v)]
       IN  /\ posts_cache' = cache_store(posts_cache, r.page_id, r.limit, payload, now)
           /\ stored' = [k \in DOMAIN stored \cup {ResourceKey(r.page_id, r.limit)} |->
                           IF k = ResourceKey(r.page_id, r.limit)
                           THEN [at |-> now, payload |-> payload]
                           ELSE stored[k]]
           /\ IF res.tag = "raise"
              THEN last' = Answer(except_response(res),
                                  [r.g EXCEPT !.cause = reply, !.cls = res.cls], <<>>)
              ELSE last' = Answer(Response(200, payload, <<CACHE_TTL_SECONDS>>, "endpoint"),
                                  [r.g EXCEPT !.stores = 1, !.qv = reply.v], <<>>)
    /\ inflight' = Remove(inflight, r)
    /\ UNCHANGED <<fb_access_token, api_keys, now, buckets, arrivals, admitted>>

\* The reply to get_page_posts' call arrives: an error ends the request; data
\* completes the payload, which is stored and returned with the full TTL.
PostsReply(r, reply) ==
    /\ last = NoResponse
    /\ BagIn(r, inflight)
    /\ r.pc = "posts"
    /\ LET res == call_result(reply)
           payload == [page |-> r.page_info[1],
                       posts |-> posts_of(r.page_id, r.limit, reply.v)]
       IN  IF res.tag = "raise"
           THEN /\ last' = Answer(except_response(res),
                                   [r.g EXCEPT !.cause = reply, !.cls = res.cls], <<>>)
                /\ UNCHANGED <<posts_cache, stored>>
           ELSE /\ posts_cache' = cache_store(posts_cache, r.page_id, r.limit, payload, now)
                /\ stored' = [k \in DOMAIN stored \cup {ResourceKey(r.page_id, r.limit)} |->
                                IF k = ResourceKey(r.page_id, r.limit)
                                THEN [at |-> now, payload |-> payload]
                                ELSE stored[k]]
                /\ last' = Answer(Response(200, payload, <<CACHE_TTL_SECONDS>>, "endpoint"),
                                  [r.g EXCEPT !.stores = 1, !.qv = reply.v], <<>>)
    /\ inflight' = Remove(inflight, r)
    /\ UNCHANGED <<fb_access_token, api_keys, now, buckets, arrivals, admitted>>

\* The response a step produced is sent before the event loop runs the next
\* step.
Send ==
    /\ last # NoResponse
    /\ last' = NoResponse
    /\ UNCHANGED <<fb_access_token, api_keys, now, posts_cache, buckets, inflight,
                   arrivals, stored, admitted>>

\* Time passes: one tick, or all but one tick of a rate-limit window.
Delays == {1, WindowTicks - 1}

\* The clock as time.time(): the wall clock may also be set back.
Tick_wall_clock(d) ==
    /\ last = NoResponse
    /\ \E t \in {now + d, now - d} \cap TimePoints : now' = t
    /\ UNCHANGED <<fb_access_token, api_keys, posts_cache, buckets, inflight, arrivals,
                   last, stored, admitted>>

Tick(d) ==
    /\ last = NoResponse
    /\ now + d \in TimePoints
    /\ now' = now + d
    /\ UNCHANGED <<fb_access_token, api_keys, posts_cache, buckets, inflight, arrivals,
                   last, stored, admitted>>

\* ------------------------------------------------------------ specification

\* The state after start-up, with API_KEYS one of raws.  preloads names the
\* limiter's storage the run starts from: "empty", as after a restart, or
\* "key": key "k" one short of its limit in a window opened at time 0, or
\* "full": key "k" at its limit in that window.
InitWith(preloads, raws) ==
    /\ fb_access_token \in TokenValues
    /\ \E raw \in raws :
         /\ parse_api_keys(raw).tag # "raise"
         /\ api_keys = parse_api_keys(raw)
    /\ now = 0
    /\ posts_cache = EmptyDict
    /\ \E p \in preloads :
         /\ buckets = IF p = "empty" THEN EmptyDict
                      ELSE [x \in {S_key \o <<"k">>} |->
                              [count |-> IF p = "key" THEN RATE_LIMIT - 1 ELSE RATE_LIMIT,
                               expiry |-> WindowTicks]]
         /\ admitted = IF p = "empty" THEN EmptyDict
                       ELSE [x \in {[by |-> "key", of |-> <<"k">>]} |->
                               [n |-> IF p = "key" THEN RATE_LIMIT - 1 ELSE RATE_LIMIT,
                                until |-> WindowTicks]]
    /\ inflight = EmptyBag
    /\ arrivals = 0
    /\ last = NoResponse
    /\ stored = EmptyDict

Init == InitWith({"empty"}, ApiKeysValues)

InitCache == InitWith({"empty"}, RegistryValues)

InitRate == InitWith({"empty", "key", "full"}, ApiKeysValues)

\* The steps that continue a request, the upstream answering with one of
\* replies.
Progress(replies) ==
    \/ \E r \in BagToSet(inflight), reply \in replies : ProfileReply(r, reply)
    \/ \E r \in BagToSet(inflight), reply \in replies : PostsReply(r, reply)
    \/ Send

NextAuth ==
    \/ \E rq \in AuthRequests : Receive(rq, 1)
    \/ Progress(CommonReplies)

NextCache ==
    \/ \E rq \in CacheRequests : Receive(rq, 2)
    \/ Progress(CommonReplies)
    \/ \E d \in Delays : Tick(d)

NextRate ==
    \/ \E rq \in RateRequests : Receive(rq, 1)
    \/ Progress(CommonReplies)
    \/ \E d \in Delays : Tick(d)

NextUpstream ==
    \/ \E rq \in UpstreamRequests : Receive(rq, 1)
    \/ Progress(Replies)
    \/ \E d \in Delays : Tick(d)

\* Authorization: all header combinations, one query, at one time.
SpecAuth == Init /\ [][NextAuth]_vars

\* Caching: all queries, one authorized caller.
SpecCache == InitCache /\ [][NextCache]_vars

\* Upstream errors: every kind of reply, one request at a time.
SpecUpstream == Init /\ [][NextUpstream]_vars

\* Rate limiting: several callers, one query, buckets near the limit.
SpecRate == InitRate /\ [][NextRate]_vars

\* ------------------------------------------------------------------ claims

Enforced == api_keys.tag = "dict"

OpenMode == api_keys.tag = "None"

\* The latest step answered a request ...
Answered == last.tag = "resp"

\* ... in the step that received it, a GET of /api/posts.
AnsweredOnArrival ==
    Answered /\ last.rx # <<>> /\ last.rx[1].method = "GET" /\ last.rx[1].api

Suspended == BagToSet(inflight)

\* C1: in enforced mode a GET of /api/posts that the Authorizer rejects is
\* answered 401 with no limiter hit, no cache lookup or store and no upstream
\* call; only requests that passed the Authorizer are suspended at an upstream
\* call, charged to a bucket, looked up in the cache or answered from it.
C1_RejectedBeforeLimiterAndCache ==
    Enforced =>
      /\ (AnsweredOnArrival /\ last.g.authz = "reject") =>
           /\ last.resp.status = 401
           /\ last.resp.by = "auth"
           /\ ~last.g.charged
           /\ last.rx[1].lookups = 0
           /\ last.g.nProfile = 0 /\ last.g.nPosts = 0 /\ last.g.net = 0
           /\ last.g.stores = 0
      /\ \A r \in Suspended : r.g.authz = "pass"
      /\ (Answered /\ (\/ last.resp.by \in {"limiter", "cache", "upstream", "endpoint"}
                       \/ last.g.charged
                       \/ last.g.nProfile > 0))
           => last.g.authz = "pass"

\* C1 witness: a request is rejected with 401 while the cache holds an entry.
C1_Witness ==
    /\ Enforced /\ AnsweredOnArrival
    /\ last.g.authz = "reject" /\ last.resp.status = 401
    /\ posts_cache # EmptyDict

\* C2: in enforced mode a GET of a protected path with a registered key is
\* rejected with 401 when its Origin's host[:port] differs from the key's
\* domain, and passes the Authorizer when it has no Origin.
C2_OriginBoundToKey ==
    (Enforced /\ AnsweredOnArrival /\ last.rx[1].keyClass = "valid") =>
      /\ last.rx[1].originClass = "mismatch" => last.resp.status = 401
      /\ last.rx[1].originClass = "absent" => last.g.authz = "pass"

\* C3: in enforced mode a GET of a protected path with no key, or with an
\* unregistered key, is rejected with 401 whatever its Origin.
C3_MissingOrUnknownKeyRejected ==
    (Enforced /\ AnsweredOnArrival /\ last.rx[1].keyClass \in {"missing", "unknown"})
      => last.resp.status = 401

\* C4: in open mode the Authorizer rejects no request: every well-formed GET
\* of /api/posts reaches the limiter whatever its headers; and the registry,
\* hence the mode, never changes.
C4_OpenModePassesAll ==
    /\ [](OpenMode =>
            /\ (AnsweredOnArrival /\ last.rx[1].wellFormed) =>
                 /\ last.g.authz = "bypass"
                 /\ last.g.charged
                 /\ last.rx[1].stage \in {"limited", "hit", "miss"}
            /\ \A r \in Suspended : r.g.authz = "bypass" /\ r.g.charged)
    /\ [][api_keys' = api_keys]_vars

\* C4 witness: in open mode a request carrying a key and an Origin is served
\* from the cache.
C4_Witness ==
    /\ OpenMode /\ AnsweredOnArrival
    /\ last.rx[1].originClass = "other"
    /\ last.g.charged /\ last.resp.by = "cache"

\* The latest step answered a request on arrival after a cache lookup.
AnsweredAfterLookup == AnsweredOnArrival /\ last.rx[1].lookups > 0

\* The latest step completed a fetch: it stored the payload and answered 200.
AnsweredAfterStore == Answered /\ last.resp.by = "endpoint"

\* C5: a request for a (resource id, limit) whose last store is less than
\* the TTL old is a cache hit: it makes no upstream call and its body is the
\* stored payload.
C5_HitUntilTtlElapsed ==
    /\ (AnsweredAfterLookup /\ last.rx[1].prior # <<>>
          /\ last.rx[1].t0 < last.rx[1].prior[1].at + TtlTicks)
         => /\ last.resp.by = "cache"
            /\ last.g.nProfile = 0
            /\ last.resp.body = last.rx[1].prior[1].payload
    /\ \A r \in Suspended : r.g.prior # "fresh"

\* C6: a response is served from the cache only from an entry whose
\* expires_at is later than the time of the lookup; a request that finds an
\* entry with expires_at <= now goes to the upstream client.
C6_ServedOnlyBeforeExpiry ==
    /\ (AnsweredOnArrival /\ last.resp.by = "cache")
         => /\ last.rx[1].entry # <<>>
            /\ last.rx[1].t0 < last.rx[1].entry[1].expiry
            /\ last.resp.body = last.rx[1].entry[1].payload
    /\ (AnsweredAfterLookup /\ last.rx[1].entry # <<>>
          /\ last.rx[1].entry[1].expiry <= last.rx[1].t0)
         => last.rx[1].stage = "miss" /\ last.g.nProfile = 1

\* C6 witness: a request that found an entry at the very time of its expiry
\* is suspended at the upstream call.
C6_Witness ==
    \E r \in Suspended :
        /\ r.g.entry = "expired"
        /\ CacheKey(r.page_id, r.limit) \in DOMAIN posts_cache
        /\ posts_cache[CacheKey(r.page_id, r.limit)].expiry = now

\* C7: a request for a pair whose last store is at least the TTL old is a
\* miss; a fetch makes one profile call and then one posts call; when it
\* succeeds, the entry a lookup for the pair reads is the new payload with
\* expires_at = time of the store + TTL.
C7_RefetchAfterTtl ==
    /\ (AnsweredAfterLookup /\ last.rx[1].prior # <<>>
          /\ last.rx[1].t0 >= last.rx[1].prior[1].at + TtlTicks)
         => last.rx[1].stage = "miss" /\ last.resp.by # "cache"
    /\ \A r \in Suspended :
         /\ r.pc = "profile" => r.g.nProfile = 1 /\ r.g.nPosts = 0 /\ r.g.net = 1
         /\ r.pc = "posts" => r.g.nProfile = 1 /\ r.g.nPosts = 1 /\ r.g.net = 2
    /\ AnsweredAfterStore =>
         /\ last.g.nProfile = 1 /\ last.g.nPosts = 1 /\ last.g.net = 2
         /\ last.g.stores = 1
         /\ \E k \in DOMAIN posts_cache :
               posts_cache[k] = [expiry |-> now + TtlTicks, payload |-> last.resp.body]
         /\ LET c == get_cached_posts(posts_cache, last.resp.body.page.id,
                                      last.resp.body.posts.limit, now)
            IN  c # <<>> /\ c[1].body = last.resp.body

\* C7 witness: a request that arrived after the TTL of its pair's last store
\* has stored its result.
C7_Witness ==
    /\ AnsweredAfterStore
    /\ last.g.prior = "stale"
    /\ \E k \in DOMAIN posts_cache :
          posts_cache[k] = [expiry |-> now + TtlTicks, payload |-> last.resp.body]

\* C8: a request is served from the cache only with the payload last stored
\* for its own (resource id, limit); and the entry of every pair is the one
\* last stored for that pair, whatever was stored for other pairs since.
C8_EntriesNotShared ==
    /\ (AnsweredOnArrival /\ last.resp.by = "cache")
         => /\ last.rx[1].prior # <<>>
            /\ last.resp.body = last.rx[1].prior[1].payload
            /\ last.resp.body.page.id = last.rx[1].rkey[1].resource_id
            /\ last.resp.body.posts.limit = last.rx[1].rkey[1].page_size
    /\ \A rk \in DOMAIN stored :
         \E k \in DOMAIN posts_cache :
            posts_cache[k] = [expiry |-> stored[rk].at + TtlTicks,
                              payload |-> stored[rk].payload]
    /\ \A r \in Suspended :
         r.g.prior = "none" => r.g.entry = "none"

\* C8 witness: a request goes upstream while the entry of the same page for
\* another limit is live in the cache.
C8_Witness ==
    \E r \in Suspended :
        /\ r.g.prior = "none"
        /\ \E rk \in DOMAIN stored :
              /\ rk.resource_id = r.page_id /\ rk.page_size # r.limit
              /\ now + TicksPerSecond <= stored[rk].at + TtlTicks

\* The latest step answered a request that reached the rate limiter.
AnsweredAfterLimiter ==
    AnsweredOnArrival /\ last.rx[1].stage \in {"limited", "hit", "miss"}

\* C9: no CallerIdentity has more than 60 requests admitted in one window; a
\* request of an identity with 60 admissions in its current window is
\* answered 429 by the limiter; and the limiter answers 429 only to a request
\* whose own identity has 60 admissions in its current window.
C9_BucketsPerCallerIdentity ==
    /\ \A id \in DOMAIN admitted : admitted[id].n <= RATE_LIMIT
    /\ (AnsweredAfterLimiter /\ last.rx[1].budget >= RATE_LIMIT)
         => last.resp.status = 429 /\ last.resp.by = "limiter"
    /\ (AnsweredOnArrival /\ last.resp.by = "limiter")
         => last.resp.status = 429 /\ last.rx[1].budget >= RATE_LIMIT

\* C9 witness: the 61st request of a key in a window is answered 429 after a
\* request of another identity was admitted in that window.
C9_Witness ==
    /\ AnsweredOnArrival /\ last.resp.by = "limiter" /\ last.resp.status = 429
    /\ last.rx[1].budget = RATE_LIMIT
    /\ \E id \in DOMAIN admitted :
          /\ id # [by |-> "key", of |-> last.rx[1].key]
          /\ last.rx[1].t0 < admitted[id].until

\* C10: a request the limiter rejects is answered 429 with no cache lookup,
\* no store and no upstream call; and every request that got as far as the
\* cache lookup, a hit or a miss, was counted by the limiter.
C10_LimiterBeforeCache ==
    /\ (AnsweredOnArrival /\ (last.resp.by = "limiter" \/ last.rx[1].stage = "limited"))
         => /\ last.resp.status = 429
            /\ last.rx[1].lookups = 0
            /\ last.g.nProfile = 0 /\ last.g.nPosts = 0 /\ last.g.net = 0
            /\ last.g.stores = 0
    /\ AnsweredAfterLookup => last.g.charged
    /\ (Answered /\ last.resp.by \in {"cache", "upstream", "endpoint"}) => last.g.charged
    /\ \A r \in Suspended : r.g.charged

\* C10 witness: a request is answered 429 by the limiter while the cache
\* holds a live entry for its query.
C10_Witness ==
    /\ AnsweredOnArrival /\ last.resp.by = "limiter"
    /\ last.rx[1].lookups = 0
    /\ get_cached_posts(posts_cache, last.rx[1].rkey[1].resource_id,
                        last.rx[1].rkey[1].page_size, now) # <<>>

\* The latest step answered a request whose fetch failed.
AnsweredAfterFailure == Answered /\ last.g.cause.tag # "none"

\* C11: a failed fetch is answered by the class of its failure: throttling
\* codes 429, code 100 404, code 190 500, permission codes 403, any other
\* error object 502, each with the upstream's message; a missing token 500;
\* any other exception 500 with the fixed message; and the status is the one
\* of the handler of the exception's own class.
C11_ErrorMapping ==
    AnsweredAfterFailure =>
      LET c == last.g.cause
          st == last.resp.status
      IN  /\ c.tag = "error" =>
                /\ last.resp.body = [error |-> "upstream message"]
                /\ st = IF c.code \in RATE_LIMIT_CODES THEN 429
                        ELSE IF c.code = 100 THEN 404
                        ELSE IF c.code = 190 THEN 500
                        ELSE IF c.code \in PERMISSION_CODES THEN 403
                        ELSE 502
          /\ c.tag = "fail" =>
                st = 500 /\ last.resp.body = [error |-> "Internal server error"]
          /\ c.tag = "token" => st = 500
          /\ st = CASE last.g.cls = "RateLimitError" -> 429
                    [] last.g.cls = "PageNotFoundError" -> 404
                    [] last.g.cls = "ConfigurationError" -> 500
                    [] last.g.cls = "TokenError" -> 500
                    [] last.g.cls = "PermissionError" -> 403
                    [] last.g.cls = "FacebookAPIError" -> 502
                    [] OTHER -> 500

\* C11 witness: an error object of no known class, from the second call, is
\* answered 502.
C11_Witness ==
    /\ AnsweredAfterFailure
    /\ last.g.cause.tag = "error" /\ last.g.cause.code = 300
    /\ last.g.nPosts = 1
    /\ last.resp.status = 502

\* The latest step answered a GET of /api/posts, on arrival or after a fetch.
AnsweredPosts ==
    Answered /\ (last.rx = <<>> \/ (last.rx[1].method = "GET" /\ last.rx[1].api))

\* C12: every non-2xx response to a GET of /api/posts has a body of the form
\* {"error": message} and a status in {401, 403, 404, 429, 500, 502}.
C12_ErrorEnvelope ==
    (AnsweredPosts /\ last.resp.status \notin 200..299) =>
      /\ DOMAIN last.resp.body = {"error"}
      /\ last.resp.status \in {401, 403, 404, 429, 500, 502}

\* C13: a failed request made no further call after the failure and stored
\* nothing; the step that answers a failure leaves the cache as it was, and
\* the cache changes only in a step that answers 200 after a store; every
\* entry holds a page and posts fetched for its own (resource id, limit), and
\* a stored payload is made of the two replies to the storing request itself.
C13_ShortCircuit ==
    /\ [](/\ AnsweredAfterFailure =>
               /\ last.g.stores = 0 /\ last.g.qv = 0
               /\ last.g.nPosts = 0 => last.g.net <= 1 /\ last.g.pv = 0
          /\ AnsweredAfterStore =>
               /\ last.g.cause.tag = "none"
               /\ last.g.nProfile = 1 /\ last.g.nPosts = 1
               /\ last.resp.body.page.v = last.g.pv
               /\ last.resp.body.posts.v = last.g.qv
          /\ \A k \in DOMAIN posts_cache :
               /\ posts_cache[k].payload.page.id = k[1]
               /\ posts_cache[k].payload.page.v \in Versions
               /\ posts_cache[k].payload.posts.of = k[1]
               /\ posts_cache[k].payload.posts.limit = k[2]
               /\ posts_cache[k].payload.posts.v \in Versions)
    /\ [][/\ AnsweredAfterFailure' => posts_cache' = posts_cache
          /\ posts_cache' # posts_cache => AnsweredAfterStore']_vars

\* C13 witness: the posts fetch of a request that found an expired entry has
\* failed, and the entry is still the only one in the cache.
C13_Witness ==
    /\ AnsweredAfterFailure
    /\ last.g.nPosts = 1 /\ last.g.net = 2
    /\ last.g.entry = "expired"
    /\ Cardinality(DOMAIN posts_cache) = 1

\* C14: a missing access token is found before any network call and is
\* raised as the misconfiguration class (ConfigurationError), not as the
\* class of the upstream's invalid-credential error (code 190, TokenError)
\* and not as a generic upstream failure; both are answered 500.
C14_MissingTokenIsMisconfigured ==
    AnsweredAfterFailure =>
      /\ last.g.cause.tag = "token" =>
            /\ last.g.net = 0
            /\ last.resp.status = 500
            /\ last.g.cls = "ConfigurationError"
      /\ (last.g.cause.tag = "error" /\ last.g.cause.code = 190) =>
            /\ last.resp.status = 500
            /\ last.g.cls = "TokenError"

\* C15: a request whose limit is outside 1..20, or that has no page_id, is
\* answered without a limiter hit, a cache lookup, an upstream call or a
\* store; no suspended fetch and no cache key has a limit outside 1..20; and
\* a request without limit is looked up, and served, with limit 5.
C15_LimitValidatedFirst ==
    /\ (AnsweredOnArrival
          /\ (\/ last.rx[1].page_id = <<>>
              \/ (last.rx[1].limit # <<>> /\ last.rx[1].limit[1] \notin 1..20)))
         => /\ last.resp.status = 422
            /\ ~last.g.charged
            /\ last.rx[1].lookups = 0
            /\ last.g.nProfile = 0 /\ last.g.net = 0 /\ last.g.stores = 0
    /\ \A r \in Suspended : r.limit \in 1..20
    /\ \A k \in DOMAIN posts_cache : k[2] \in 1..20
    /\ (AnsweredAfterLookup /\ last.rx[1].limit = <<>>)
         => /\ last.rx[1].rkey[1].page_size = 5
            /\ last.resp.by = "cache" => last.resp.body.posts.limit = 5

\* C15 witness: limit=21 is answered 422 while the cache holds an entry.
C15_Witness ==
    /\ AnsweredOnArrival
    /\ last.rx[1].limit = <<21>> /\ last.rx[1].page_id # <<>>
    /\ last.resp.status = 422
    /\ posts_cache # EmptyDict

\* C16: once a lookup has found an entry with expires_at <= now, that entry
\* is gone from the cache map: while the request is suspended at its fetch,
\* and after it was answered, its key holds no entry that has expired.
C16_EvictedOnRead ==
    /\ \A r \in Suspended :
          r.g.entry = "expired" =>
             \/ CacheKey(r.page_id, r.limit) \notin DOMAIN posts_cache
             \/ now < posts_cache[CacheKey(r.page_id, r.limit)].expiry
    /\ (AnsweredAfterLookup /\ last.rx[1].entry # <<>>
          /\ last.rx[1].entry[1].expiry <= last.rx[1].t0)
         => \A k \in DOMAIN posts_cache : posts_cache[k] # last.rx[1].entry[1]

C18_NoCoalescingAtomicStore ==
    /\ \A r \in Suspended : r.g.nProfile = 1 /\ r.g.net >= 1 /\ r.g.stores = 0
    /\ Cardinality(DOMAIN posts_cache) = Cardinality(DOMAIN stored)
    /\ \A rk \in DOMAIN stored :
         /\ <<rk.resource_id, rk.page_size>> \in DOMAIN posts_cache
         /\ posts_cache[<<rk.resource_id, rk.page_size>>] =
               [expiry |-> stored[rk].at + TtlTicks, payload |-> stored[rk].payload]
    /\ AnsweredAfterStore =>
         LET body == last.resp.body
         IN  /\ <<body.page.id, body.posts.limit>> \in DOMAIN posts_cache
             /\ posts_cache[<<body.page.id, body.posts.limit>>] =
                   [expiry |-> now + TtlTicks, payload |-> body]
             /\ body.page.v = last.g.pv /\ body.posts.v = last.g.qv

\* C18 witness: of two requests for one pair that both missed, one has
\* stored its result and the other is still suspended at its fetch.
C18_Witness ==
    /\ AnsweredAfterStore
    /\ last.g.prior = "none"
    /\ \E r \in Suspended :
          /\ r.page_id = last.resp.body.page.id
          /\ r.limit = last.resp.body.posts.limit
          /\ r.g.prior = "none"

\* C19: the CORS allow-list holds https://<domain> for every registered
\* domain, http://<domain> as well exactly for the local ones, and nothing
\* else; and a request with a registered key and an Origin of the form
\* scheme://host[:port] passes the Authorizer only if that Origin is in the
\* allow-list.
C19_CorsAgreesWithAuthorizer ==
    Enforced =>
      /\ \A k \in DOMAIN api_keys.d :
           /\ (S_https \o api_keys.d[k]) \in build_cors_origins
           /\ (S_http \o api_keys.d[k]) \in build_cors_origins
                 <=> is_local_domain(api_keys.d[k])
      /\ \A o \in build_cors_origins :
           \E k \in DOMAIN api_keys.d : o \in {S_http \o api_keys.d[k], S_https \o api_keys.d[k]}
      /\ (AnsweredOnArrival /\ last.rx[1].keyClass = "valid"
            /\ last.rx[1].origin # <<>> /\ OriginHostPort(last.rx[1].origin) # <<>>
            /\ last.g.authz = "pass")
           => last.rx[1].origin \in build_cors_origins

\* C20: every cache entry has expires_at <= now + TTL, and no step lowers
\* the expires_at of a key or removes it.
C20_FreshnessBound ==
    /\ [](\A k \in DOMAIN posts_cache : posts_cache[k].expiry <= now + TtlTicks)
    /\ [][\A k \in DOMAIN posts_cache :
             /\ k \in DOMAIN posts_cache'
             /\ posts_cache'[k].expiry >= posts_cache[k].expiry]_vars

\* C20 witness: a store has replaced an expired entry, and the key's
\* expires_at is now the time of this store + TTL.
C20_Witness ==
    /\ AnsweredAfterStore
    /\ last.g.entry = "expired"
    /\ posts_cache[CacheKey(last.resp.body.page.id, last.resp.body.posts.limit)].expiry
          = now + TtlTicks
    /\ now >= TtlTicks

====
